---- MODULE Spec2Model ----
(***************************************************************************)
(* A model of pytest_dependency.py: the per-scope DependencyManager, the   *)
(* DependencyItemStatus records it owns, the PassRequirement policies and  *)
(* the pytest hooks that feed and query the manager.                       *)
(*                                                                         *)
(* Strings that the code takes apart (node names, identifiers) are         *)
(* sequences of one-character strings, so that "K::a" is                   *)
(* <<"K", ":", ":", "a">> and the regular expression of _split_node_name   *)
(* is modelled by what it matches.  Strings that are only compared         *)
(* (phase names, outcomes, policy names) are TLA+ strings.  Python's None  *)
(* is the one-token sequence <<"None">> where a name is expected and the   *)
(* string "None" in a phase slot.  A leading underscore of a Python name   *)
(* is dropped (_ignore_unknown is ignore_unknown, _checkDepend is          *)
(* module_checkDepend).                                                    *)
(***************************************************************************)
EXTENDS Integers, Sequences, FiniteSets, TLC

VARIABLES
    ignore_unknown,     \* the module global _ignore_unknown
    automark,           \* the module global _automark
    heap,               \* the DependencyItemStatus objects, by object identity
    dependencyManager,  \* node -> the DependencyManager attached to that node
    last,               \* the last operation performed and how it ended
    session             \* the host's test session: its suite and how far it is

vars == <<ignore_unknown, automark, heap, dependencyManager, last, session>>

----------------------------------------------------------------------------
(* Bounds of the model. *)

\* Longest dependency list handed to a dependency check.
MaxDeps == 2

----------------------------------------------------------------------------
(* Values. *)

None == <<"None">>

CLASS_METHOD_SEPARATOR == <<":", ":">>

\* The characters \w matches among those the model's names are written with.
WordChars == {"K", "a", "b", "p", "x"}

Phases == <<"setup", "call", "teardown">>

PhaseSet == {Phases[i] : i \in 1..Len(Phases)}

passed_result_values == <<"passed", "passed", "passed">>

\* The outcomes a pytest report carries.
Outcomes == {"passed", "failed", "skipped"}

Reports == [when : PhaseSet, outcome : Outcomes]

Range(f) == {f[k] : k \in DOMAIN f}

\* Truth value of a name-or-None: None and the empty string are false.
Truthy(name) == name # None /\ Len(name) > 0

----------------------------------------------------------------------------
(* _split_node_name: node_name_regexp.match(name).groupdict().             *)

RECURSIVE WordRun(_, _)
\* Length of the longest run of \w characters of s that starts at index i.
WordRun(s, i) ==
    IF i <= Len(s) /\ s[i] \in WordChars THEN 1 + WordRun(s, i + 1) ELSE 0

\* Index of the last "]" of s at or after index i, 0 when there is none.
LastClose(s, i) ==
    LET js == {j \in i..Len(s) : s[j] = "]"}
    IN  IF js = {} THEN 0 ELSE CHOOSE j \in js : \A k \in js : k <= j

split_node_name(name) ==
    LET c        == WordRun(name, 1)
        \* ((?P<class_name>\w+)::)?  matches only when a function name follows
        hasClass == c > 0 /\ c + 2 <= Len(name)
                    /\ SubSeq(name, c + 1, c + 2) = CLASS_METHOD_SEPARATOR
                    /\ WordRun(name, c + 3) > 0
        start    == IF hasClass THEN c + 3 ELSE 1
        f        == WordRun(name, start)
        stop     == start + f - 1
        \* (\[(?P<params_name>.*)\])?  the greedy .* runs to the last "]"
        hasParams == stop + 1 <= Len(name) /\ name[stop + 1] = "["
                     /\ LastClose(name, stop + 2) > 0
    IN  [class_name  |-> IF hasClass THEN SubSeq(name, 1, c) ELSE None,
         func_name   |-> SubSeq(name, start, stop),
         params_name |-> IF hasParams
                         THEN SubSeq(name, stop + 2, LastClose(name, stop + 2) - 1)
                         ELSE None]

----------------------------------------------------------------------------
(* DependencyItemStatus. *)

\* DependencyItemStatus.__init__
DependencyItemStatus == [results |-> [w \in PhaseSet |-> "None"]]

\* addResult that keeps the first outcome reported for a phase
status_addResult_keep_first(self, rep) ==
    IF self.results[rep.when] = "None"
    THEN [self EXCEPT !.results[rep.when] = rep.outcome]
    ELSE self

\* DependencyItemStatus.addResult
status_addResult(self, rep) ==
    [self EXCEPT !.results[rep.when] = rep.outcome]

\* isSuccess that looks at the call phase alone
isSuccess_call_only(self) == self.results["call"] = "passed"

\* DependencyItemStatus.isSuccess
isSuccess(self) ==
    [i \in 1..Len(Phases) |-> self.results[Phases[i]]] = passed_result_values

\* DependencyItemStatus.__bool__ / __nonzero__, applied to the object o
bool(o) == isSuccess(heap[o])

----------------------------------------------------------------------------
(* PassRequirement. *)

\* all with the quantifiers exchanged: some result-set is all successful
all_some_set(dependency_results) ==
    \E i \in 1..Len(dependency_results) :
        \A o \in dependency_results[i] : bool(o)

\* PassRequirement.all
all(dependency_results) ==
    \A i \in 1..Len(dependency_results) :
        \A o \in dependency_results[i] : bool(o)

\* PassRequirement.any
any(dependency_results) ==
    \E i \in 1..Len(dependency_results) :
        \E o \in dependency_results[i] : bool(o)

\* each with the quantifier of any over the result-sets
each_as_any(dependency_results) ==
    \E i \in 1..Len(dependency_results) :
        \E o \in dependency_results[i] : bool(o)

\* PassRequirement.each
each(dependency_results) ==
    \A i \in 1..Len(dependency_results) :
        \E o \in dependency_results[i] : bool(o)

\* The callables themselves, as values.
PassRequirement_all == "PassRequirement.all"
PassRequirement_any == "PassRequirement.any"
PassRequirement_each == "PassRequirement.each"

\* PassRequirement._methods, built by MethodsMeta from the public members.
methods ==
    ("all" :> PassRequirement_all) @@ ("any" :> PassRequirement_any)
        @@ ("each" :> PassRequirement_each)

\* Calling a requirement callable.
call_checker(checker, dependency_results) ==
    CASE checker = PassRequirement_all  -> all(dependency_results)
      [] checker = PassRequirement_any  -> any(dependency_results)
      [] checker = PassRequirement_each -> each(dependency_results)

\* PassRequirement._get_requirement_callable
get_requirement_callable(name_of_callable) ==
    LET method == IF name_of_callable \in DOMAIN methods
                  THEN methods[name_of_callable]
                  ELSE name_of_callable
    IN  IF method \notin Range(methods)
        THEN [raised |-> TRUE, method |-> name_of_callable]
        ELSE [raised |-> FALSE, method |-> method]

----------------------------------------------------------------------------
(* Messages carried by pytest.fail, pytest.skip and ValueError. *)

NoMsg == [text |-> "", ids |-> <<>>, item |-> None, dependencies |-> <<>>,
          arg |-> ""]

FailMsg(unknown_ids, item_name) ==
    [NoMsg EXCEPT !.text = "Unknown dependencies {} in {}.",
                  !.ids = unknown_ids, !.item = item_name]

SkipMsg(item_name, dependencies) ==
    [NoMsg EXCEPT !.text = "{} depends on {}",
                  !.item = item_name, !.dependencies = dependencies]

ValueErrorMsg(name_of_callable) ==
    [NoMsg EXCEPT !.text = "{} is not a <{}> method or its name.",
                  !.arg = name_of_callable]

----------------------------------------------------------------------------
(* DependencyManager. *)

\* DependencyManager.__init__: two empty mappings.
DependencyManager == [results |-> <<>>, results_by_name |-> <<>>]

\* The program's objects: the managers attached to nodes, and the heap.
World == [dm |-> dependencyManager, heap |-> heap]

\* getManager builds a fresh manager at every call
getManager_always_new(w, item) ==
    [w EXCEPT !.dm = [n \in DOMAIN w.dm \cup {item.module} |->
                          IF n = item.module THEN DependencyManager
                          ELSE w.dm[n]]]

\* every item anchored at the one session node (ScopeCls['session'])
scope_node_session(item) == "session"

\* node = item.getparent(cls.ScopeCls[scope]), scope = 'module': the node
\* that carries the manager of the item
scope_node(item) == item.module

\* DependencyManager.getManager: the world after the call; the manager it
\* returns is the one at scope_node(item)
getManager(w, item) ==
    LET node == scope_node(item)
    IN  IF node \notin DOMAIN w.dm
        THEN [w EXCEPT !.dm = w.dm @@ (node :> DependencyManager)]
        ELSE w

\* The node name DependencyManager.addResult computes for an item.
node_name_of(item) ==
    IF item.cls # None
    THEN item.cls \o CLASS_METHOD_SEPARATOR \o item.name
    ELSE item.name

RECURSIVE add_by_name(_, _, _, _)
\* for name in dependency_ids: if name: self.results_by_name[name].add(status)
add_by_name(results_by_name, dependency_ids, i, status) ==
    IF i > Len(dependency_ids) THEN results_by_name
    ELSE LET name == dependency_ids[i]
             next == IF ~Truthy(name) THEN results_by_name
                     ELSE IF name \in DOMAIN results_by_name
                          THEN [results_by_name EXCEPT ![name] = @ \cup {status}]
                          ELSE results_by_name @@ (name :> {status})
         IN  add_by_name(next, dependency_ids, i + 1, status)

\* The identifiers addResult registers a status under.
dependency_ids_of(dependency_name, node_name) ==
    LET parts == split_node_name(node_name)
    IN  <<dependency_name, parts.class_name, parts.func_name, parts.params_name>>

\* addResult that leaves out the function name of a method of a class
addResult_no_func(w, node, item, dependency_name, rep) ==
    LET self      == w.dm[node]
        node_name == node_name_of(item)
        parts     == split_node_name(node_name)
        ids       == IF parts.class_name # None
                     THEN <<dependency_name, parts.class_name, parts.params_name>>
                     ELSE dependency_ids_of(dependency_name, node_name)
        present   == node_name \in DOMAIN self.results
        status    == IF present THEN self.results[node_name] ELSE Len(w.heap) + 1
        heap1     == IF present THEN w.heap
                     ELSE Append(w.heap, DependencyItemStatus)
        heap2     == [heap1 EXCEPT ![status] = status_addResult(@, rep)]
        results1  == IF present THEN self.results
                     ELSE self.results @@ (node_name :> status)
        self1     == [results |-> results1,
                      results_by_name |->
                          add_by_name(self.results_by_name, ids, 1, status)]
    IN  [dm |-> [w.dm EXCEPT ![node] = self1], heap |-> heap2]

\* DependencyManager.addResult, on the manager attached to node
\* addResult that indexes results_by_name with every identifier before the
\* test `if name`, so that the defaultdict makes an empty set for None
addResult_touch_all(w, node, item, dependency_name, rep) ==
    LET self      == w.dm[node]
        node_name == node_name_of(item)
        ids       == dependency_ids_of(dependency_name, node_name)
        present   == node_name \in DOMAIN self.results
        status    == IF present THEN self.results[node_name] ELSE Len(w.heap) + 1
        heap1     == IF present THEN w.heap
                     ELSE Append(w.heap, DependencyItemStatus)
        heap2     == [heap1 EXCEPT ![status] = status_addResult(@, rep)]
        results1  == IF present THEN self.results
                     ELSE self.results @@ (node_name :> status)
        added     == add_by_name(self.results_by_name, ids, 1, status)
        self1     == [results |-> results1,
                      results_by_name |->
                          [id \in DOMAIN added \cup Range(ids) |->
                              IF id \in DOMAIN added THEN added[id] ELSE {}]]
    IN  [dm |-> [w.dm EXCEPT ![node] = self1], heap |-> heap2]

\* addResult that enters the status in the index under the explicit name only
addResult_named_only(w, node, item, dependency_name, rep) ==
    LET self      == w.dm[node]
        node_name == node_name_of(item)
        present   == node_name \in DOMAIN self.results
        status    == IF present THEN self.results[node_name] ELSE Len(w.heap) + 1
        heap1     == IF present THEN w.heap
                     ELSE Append(w.heap, DependencyItemStatus)
        heap2     == [heap1 EXCEPT ![status] = status_addResult(@, rep)]
        results1  == IF present THEN self.results
                     ELSE self.results @@ (node_name :> status)
        self1     == [results |-> results1,
                      results_by_name |->
                          add_by_name(self.results_by_name,
                                      <<dependency_name>>, 1, status)]
    IN  [dm |-> [w.dm EXCEPT ![node] = self1], heap |-> heap2]

\* addResult that stores a new status at every call instead of setdefault
addResult_new_status(w, node, item, dependency_name, rep) ==
    LET self      == w.dm[node]
        node_name == node_name_of(item)
        status    == Len(w.heap) + 1
        heap2     == Append(w.heap, status_addResult(DependencyItemStatus, rep))
        results1  == [n \in DOMAIN self.results \cup {node_name} |->
                         IF n = node_name THEN status ELSE self.results[n]]
        self1     == [results |-> results1,
                      results_by_name |->
                          add_by_name(self.results_by_name,
                                      dependency_ids_of(dependency_name, node_name),
                                      1, status)]
    IN  [dm |-> [w.dm EXCEPT ![node] = self1], heap |-> heap2]

addResult(w, node, item, dependency_name, rep) ==
    LET self           == w.dm[node]
        node_name      == node_name_of(item)
        dependency_ids == dependency_ids_of(dependency_name, node_name)
        \* self.results.setdefault(node_name, DependencyItemStatus())
        present        == node_name \in DOMAIN self.results
        status         == IF present THEN self.results[node_name]
                          ELSE Len(w.heap) + 1
        heap1          == IF present THEN w.heap
                          ELSE Append(w.heap, DependencyItemStatus)
        heap2          == [heap1 EXCEPT ![status] = status_addResult(@, rep)]
        results1       == IF present THEN self.results
                          ELSE self.results @@ (node_name :> status)
        self1          == [results |-> results1,
                           results_by_name |->
                               add_by_name(self.results_by_name,
                                           dependency_ids, 1, status)]
    IN  [dm |-> [w.dm EXCEPT ![node] = self1], heap |-> heap2]

\* a lookup by results_by_name[id_]: the defaultdict inserts an empty set
\* for a missing key
defaultdict_getitem(results_by_name, id_) ==
    IF id_ \in DOMAIN results_by_name THEN results_by_name
    ELSE results_by_name @@ (id_ :> {})

\* get_results = self.results_by_name.get; get_results(id_): the table after
\* the lookup (dict.get never calls __missing__, so nothing is inserted)
get_results_effect(results_by_name, id_) == results_by_name

RECURSIVE lookups(_, _, _)
\* results_by_name after the lookups of _split_unknown_dependencies, from
\* index i on
lookups(results_by_name, dependencies, i) ==
    IF i > Len(dependencies) THEN results_by_name
    ELSE lookups(get_results_effect(results_by_name, dependencies[i]),
                 dependencies, i + 1)

\* The manager after self.checkDepend(dependencies, item, checker), however
\* the call ends: only the lookups touch it.
after_checkDepend(self, dependencies) ==
    [self EXCEPT !.results_by_name = lookups(@, dependencies, 1)]

RECURSIVE split_loop(_, _, _, _, _)
\* The loop of _split_unknown_dependencies, from index i on.
split_loop(results_by_name, dependencies, i, unknown_ids, dependency_results) ==
    IF i > Len(dependencies)
    THEN [unknown_ids |-> unknown_ids, dependency_results |-> dependency_results]
    ELSE LET id_ == dependencies[i]
         IN  IF id_ \notin DOMAIN results_by_name    \* get_results(id_) is None
             THEN split_loop(results_by_name, dependencies, i + 1,
                             Append(unknown_ids, id_), dependency_results)
             ELSE split_loop(results_by_name, dependencies, i + 1, unknown_ids,
                             Append(dependency_results, results_by_name[id_]))

\* DependencyManager._split_unknown_dependencies
split_unknown_dependencies(self, dependencies) ==
    split_loop(self.results_by_name, dependencies, 1, <<>>, <<>>)

Proceed == [outcome |-> "proceed", msg |-> NoMsg]

\* checkDepend with the unknown identifiers fatal whatever the flag says
checkDepend_always_fail_unknown(self, dependencies, item, checker) ==
    LET split == split_unknown_dependencies(self, dependencies)
    IN  IF split.unknown_ids # <<>>
        THEN [outcome |-> "fail", msg |-> FailMsg(split.unknown_ids, item.name)]
        ELSE IF ~call_checker(checker, split.dependency_results)
             THEN [outcome |-> "skip", msg |-> SkipMsg(item.name, dependencies)]
             ELSE Proceed

\* checkDepend with the policy evaluated before the unknown identifiers
checkDepend_policy_first(self, dependencies, item, checker) ==
    LET split == split_unknown_dependencies(self, dependencies)
    IN  IF ~call_checker(checker, split.dependency_results)
        THEN [outcome |-> "skip", msg |-> SkipMsg(item.name, dependencies)]
        ELSE IF ~ignore_unknown /\ split.unknown_ids # <<>>
             THEN [outcome |-> "fail",
                   msg |-> FailMsg(split.unknown_ids, item.name)]
             ELSE Proceed

\* checkDepend with an unsatisfied policy failing the test
checkDepend_fail_on_unsatisfied(self, dependencies, item, checker) ==
    LET split == split_unknown_dependencies(self, dependencies)
    IN  IF ~ignore_unknown /\ split.unknown_ids # <<>>
        THEN [outcome |-> "fail", msg |-> FailMsg(split.unknown_ids, item.name)]
        ELSE IF ~call_checker(checker, split.dependency_results)
             THEN [outcome |-> "fail", msg |-> SkipMsg(item.name, dependencies)]
             ELSE Proceed

\* checkDepend that skips only when the first dependency is unsatisfied
checkDepend_first_only(self, dependencies, item, checker) ==
    LET split == split_unknown_dependencies(self, dependencies)
    IN  IF ~ignore_unknown /\ split.unknown_ids # <<>>
        THEN [outcome |-> "fail", msg |-> FailMsg(split.unknown_ids, item.name)]
        ELSE IF ~call_checker(checker,
                     IF split.dependency_results = <<>> THEN <<>>
                     ELSE <<split.dependency_results[1]>>)
             THEN [outcome |-> "skip", msg |-> SkipMsg(item.name, dependencies)]
             ELSE Proceed

\* DependencyManager.checkDepend: how the call ends.  pytest.fail and
\* pytest.skip raise, so the first that is reached ends the call.
checkDepend(self, dependencies, item, checker) ==
    LET split == split_unknown_dependencies(self, dependencies)
    IN  IF ~ignore_unknown /\ split.unknown_ids # <<>>
        THEN [outcome |-> "fail", msg |-> FailMsg(split.unknown_ids, item.name)]
        ELSE IF ~call_checker(checker, split.dependency_results)
             THEN [outcome |-> "skip", msg |-> SkipMsg(item.name, dependencies)]
             ELSE Proceed

----------------------------------------------------------------------------
(* Module-level functions and hooks. *)

\* _checkDepend that resolves the policy after the identifiers are looked up
module_checkDepend_resolve_late(dependencies, item, xpassing) ==
    LET w       == getManager(World, item)
        manager == w.dm[scope_node(item)]
        split   == split_unknown_dependencies(manager, dependencies)
        checker == get_requirement_callable(xpassing)
    IN  IF ~ignore_unknown /\ split.unknown_ids # <<>>
        THEN [w |-> w, outcome |-> "fail",
              msg |-> FailMsg(split.unknown_ids, item.name)]
        ELSE IF checker.raised
             THEN [w |-> w, outcome |-> "error", msg |-> ValueErrorMsg(xpassing)]
             ELSE LET r == checkDepend(manager, dependencies, item, checker.method)
                  IN  [w |-> w, outcome |-> r.outcome, msg |-> r.msg]

\* _checkDepend: the world after the call and how the call ends
\* ("error" is the ValueError of _get_requirement_callable).
module_checkDepend(dependencies, item, xpassing) ==
    LET w       == getManager(World, item)
        manager == w.dm[scope_node(item)]
        checker == get_requirement_callable(xpassing)
    IN  IF checker.raised
        THEN [w |-> w, outcome |-> "error", msg |-> ValueErrorMsg(xpassing)]
        ELSE LET r  == checkDepend(manager, dependencies, item, checker.method)
                 w1 == [w EXCEPT !.dm[scope_node(item)] =
                                     after_checkDepend(@, dependencies)]
             IN  [w |-> w1, outcome |-> r.outcome, msg |-> r.msg]

\* depends(request, other, xpassing): request.node is the running item
depends_call(request, other, xpassing) ==
    module_checkDepend(other, request.node, xpassing)

\* marker.kwargs.get(key, default)
kwargs_get(kwargs, key, default) ==
    IF key \in DOMAIN kwargs THEN kwargs[key] ELSE default

\* pytest_runtest_setup(item): the world after the hook and how it ends
runtest_setup(item) ==
    LET marker == item.marker
    IN  IF marker.is_none
        THEN [w |-> World, outcome |-> "proceed", msg |-> NoMsg]
        ELSE LET has_depends == "depends" \in DOMAIN marker.kwargs
                                /\ Len(marker.kwargs["depends"]) > 0
                 xpassing    == kwargs_get(marker.kwargs, "xpassing",
                                           PassRequirement_all)
             IN  IF has_depends   \* if depends:
                 THEN module_checkDepend(marker.kwargs["depends"], item, xpassing)
                 ELSE [w |-> World, outcome |-> "proceed", msg |-> NoMsg]

----------------------------------------------------------------------------
(* Configuration. *)

\* _get_bool, on the lower-case spellings
get_bool(value) ==
    IF value # ""
    THEN IF value \in {"0", "no", "n", "false", "f", "off"}
         THEN [raised |-> FALSE, value |-> FALSE]
         ELSE IF value \in {"1", "yes", "y", "true", "t", "on"}
              THEN [raised |-> FALSE, value |-> TRUE]
              ELSE [raised |-> TRUE, value |-> FALSE]
    ELSE [raised |-> FALSE, value |-> FALSE]

----------------------------------------------------------------------------
(* Test items and the inputs of the operations. *)

Marker(kwargs) == [is_none |-> FALSE, kwargs |-> kwargs]

NoMarker == [is_none |-> TRUE, kwargs |-> <<>>]

Item(module, cls, name, marker) ==
    [module |-> module, cls |-> cls, name |-> name, marker |-> marker]

\* Method a of class K, and the instance [p] of the parametrized function a,
\* the second one marked with name="x".
NameA == <<"a">>
NameAp == <<"a", "[", "p", "]">>
ClsK == <<"K">>
QualifiedKa == <<"K", ":", ":", "a">>

\* The kwargs of the items' markers that name them (item A has none).
name_kwargs(cls, name) ==
    IF cls = None /\ name = NameAp THEN ("name" :> <<"x">>) ELSE <<>>

\* (class, name) of the test functions of module m1
Tests == {<<ClsK, NameA>>, <<None, NameAp>>}

\* Identifiers a dependency list is written with: a class name, a bare
\* function name, an explicit name and a qualified name.
DepIds == {ClsK, NameA, <<"x">>, QualifiedKa}

RECURSIVE SeqsUpTo(_, _)
SeqsUpTo(S, n) ==
    IF n = 0 THEN {<<>>}
    ELSE LET shorter == SeqsUpTo(S, n - 1)
         IN  shorter \cup {Append(q, x) : q \in shorter, x \in S}

DepLists == SeqsUpTo(DepIds, MaxDeps)

\* Policy selectors: the three names, the three callables, and a name
\* that is none of them.
ValidSelectors == DOMAIN methods \cup Range(methods)

Selectors == ValidSelectors \cup {"bogus"}

\* Items as the report hook sees them: marked, with the name kwarg only.
ReportItems ==
    {Item("m1", t[1], t[2], Marker(name_kwargs(t[1], t[2]))) : t \in Tests}

\* The dependency declarations of the suite's tests: a list and, in some,
\* a policy (a marker without xpassing, a call without it, use the default).
Declarations ==
    { ("depends" :> <<NameA>>),
      ("depends" :> <<NameA>>) @@ ("xpassing" :> "each"),
      ("depends" :> <<ClsK, <<"x">> >>) @@ ("xpassing" :> "any"),
      ("depends" :> << <<"x">>, QualifiedKa>>),
      ("depends" :> <<QualifiedKa>>) @@ ("xpassing" :> "any"),
      ("depends" :> <<ClsK>>) @@ ("xpassing" :> "bogus"),
      ("depends" :> <<>>) @@ ("xpassing" :> "bogus"),
      ("depends" :> <<>>) @@ ("xpassing" :> "any") }

\* The test that declares a dependency: the instance a[p], marked name="x".
Dependent(kwargs) ==
    Item("m1", None, NameAp, Marker(name_kwargs(None, NameAp) @@ kwargs))

\* Items as the setup hook sees them.
SetupItems == {Dependent(d) : d \in Declarations}

\* The status the manager of the item's module holds for the item, or a
\* fresh one when it holds none.
recorded_status(item) ==
    IF scope_node(item) \in DOMAIN dependencyManager
       /\ node_name_of(item) \in DOMAIN dependencyManager[scope_node(item)].results
    THEN heap[dependencyManager[scope_node(item)].results[node_name_of(item)]]
    ELSE DependencyItemStatus

\* The host's run protocol for one item: setup is reported first, call only
\* after a passed setup, teardown last, each phase once.
host_may_report(item, rep) ==
    LET r == recorded_status(item).results
    IN  CASE rep.when = "setup"    -> r["setup"] = "None"
          [] rep.when = "call"     -> r["setup"] = "passed" /\ r["call"] = "None"
                                      /\ r["teardown"] = "None"
          [] rep.when = "teardown" -> r["setup"] # "None" /\ r["teardown"] = "None"
                                      /\ (r["setup"] = "passed" => r["call"] # "None")

----------------------------------------------------------------------------
(* The state machine. *)

\* No test session in progress.
NoSession == [suite |-> <<>>, current |-> None, phase |-> "idle", veto |-> "",
              done |-> {}, vetoed |-> {}, ran |-> {}]

NoCall == [op |-> "none", item |-> None, dependencies |-> <<>>,
           xpassing |-> "", outcome |-> "", msg |-> NoMsg,
           dependency_results |-> <<>>, value |-> FALSE,
           module |-> "", rep |-> [when |-> "None", outcome |-> "None"],
           name |-> None]

Init ==
    /\ ignore_unknown = FALSE
    /\ automark = FALSE
    /\ heap = <<>>
    /\ dependencyManager = <<>>
    /\ last = NoCall
    /\ session = NoSession

\* pytest_configure(config), called by the host before any test runs
pytest_configure(config) ==
    /\ dependencyManager = <<>>
    /\ last.op \in {"none", "pytest_configure"}
    /\ LET b == get_bool(config.automark_dependency)
       IN  IF b.raised
           THEN UNCHANGED <<automark, ignore_unknown>>
           ELSE /\ automark' = b.value
                /\ ignore_unknown' = config.ignore_unknown_dependency
    /\ last' = [NoCall EXCEPT !.op = "pytest_configure"]
    /\ UNCHANGED <<heap, dependencyManager, session>>

\* a report hook that records marked tests only, whatever automark says
runtest_makereport_marked_only(w, item, rep) ==
    IF ~item.marker.is_none
    THEN addResult(getManager(w, item), scope_node(item), item,
                   kwargs_get(item.marker.kwargs, "name", None), rep)
    ELSE w

\* pytest_runtest_makereport(item, call), after the yield: the world after
\* the hook; rep is the report the host made
runtest_makereport(w, item, rep) ==
    IF ~item.marker.is_none \/ automark
    THEN LET name == IF ~item.marker.is_none
                     THEN kwargs_get(item.marker.kwargs, "name", None)
                     ELSE None
         IN  addResult(getManager(w, item), scope_node(item), item, name, rep)
    ELSE w

pytest_runtest_makereport(item, rep) ==
    /\ LET w == runtest_makereport(World, item, rep)
       IN  /\ dependencyManager' = w.dm
           /\ heap' = w.heap
    /\ last' = [NoCall EXCEPT !.op = "pytest_runtest_makereport",
                              !.item = item.name]
    /\ UNCHANGED <<ignore_unknown, automark, session>>

\* pytest_runtest_setup(item)
pytest_runtest_setup(item) ==
    /\ LET r        == runtest_setup(item)
           kw       == item.marker.kwargs
           declared == IF "depends" \in DOMAIN kw THEN kw["depends"] ELSE <<>>
       IN  /\ dependencyManager' = r.w.dm
           /\ heap' = r.w.heap
           /\ last' = [NoCall EXCEPT
                          !.op = "pytest_runtest_setup",
                          !.item = item.name,
                          !.dependencies = declared,
                          !.xpassing = kwargs_get(kw, "xpassing", PassRequirement_all),
                          !.outcome = r.outcome,
                          !.msg = r.msg]
    /\ UNCHANGED <<ignore_unknown, automark, session>>

\* depends(request, other, xpassing), called from a running test
depends(request, other, xpassing) ==
    /\ LET r == depends_call(request, other, xpassing)
       IN  /\ dependencyManager' = r.w.dm
           /\ heap' = r.w.heap
           /\ last' = [NoCall EXCEPT
                          !.op = "depends",
                          !.item = request.node.name,
                          !.dependencies = other,
                          !.xpassing = xpassing,
                          !.outcome = r.outcome,
                          !.msg = r.msg]
    /\ UNCHANGED <<ignore_unknown, automark, session>>

\* Settings of a run whose tests are all marked.
Configs == [automark_dependency : {"", "no"}, ignore_unknown_dependency : BOOLEAN]

\* The request fixture of the running test K::a.
Requests == {[node |-> Item("m1", ClsK, NameA, Marker(<<>>))]}

Configure == \E config \in Configs : pytest_configure(config)

Report ==
    \E item \in ReportItems, rep \in Reports :
        host_may_report(item, rep) /\ pytest_runtest_makereport(item, rep)

Setup == \E item \in SetupItems : pytest_runtest_setup(item)

Depends ==
    \E request \in Requests, d \in Declarations :
        depends(request, d["depends"],
                kwargs_get(d, "xpassing", PassRequirement_all))

Next == Configure \/ Report \/ Setup \/ Depends

Spec == Init /\ [][Next]_vars

----------------------------------------------------------------------------
(* The manager driven directly: any report for any item under any name.    *)

\* manager = DependencyManager.getManager(item); manager.addResult(...)
manager_addResult(item, dependency_name, rep) ==
    /\ LET w1 == getManager(World, item)
           w2 == addResult(w1, scope_node(item), item, dependency_name, rep)
       IN  /\ dependencyManager' = w2.dm
           /\ heap' = w2.heap
    /\ last' = [NoCall EXCEPT !.op = "addResult"]
    /\ UNCHANGED <<ignore_unknown, automark, session>>

ApiItems == {Item("m1", t[1], t[2], NoMarker) : t \in Tests}

ApiAddResult ==
    \E item \in ApiItems, dependency_name \in {None, <<"x">>}, rep \in Reports :
        manager_addResult(item, dependency_name, rep)

NextApi == ApiAddResult

SpecApi == Init /\ [][NextApi]_vars

----------------------------------------------------------------------------
(* The policies as functions of their argument. *)

\* Statuses after all phases passed, after a failed call, before the
\* teardown report, and after a skipped setup.
StatusAfter(setup, call, teardown) ==
    [results |-> [w \in PhaseSet |->
        CASE w = "setup" -> setup [] w = "call" -> call [] w = "teardown" -> teardown]]

SampleStatuses ==
    { StatusAfter("passed", "passed", "passed"),
      StatusAfter("passed", "failed", "passed"),
      StatusAfter("passed", "passed", "None"),
      StatusAfter("skipped", "None", "passed") }

PolicyObjects == {1, 2, 3}

\* Collections of result-sets the policies are applied to.
SampleCollections ==
    { <<>>, << {} >>, << {1, 2}, {1, 3} >>, << {3} >>, << {2}, {} >>,
      << {1, 2, 3} >> }

InitPolicy ==
    /\ ignore_unknown = FALSE
    /\ automark = FALSE
    /\ heap \in {<<a, b, c>> : a \in SampleStatuses, b \in SampleStatuses,
                               c \in SampleStatuses}
    /\ dependencyManager = <<>>
    /\ last = NoCall
    /\ session = NoSession

\* checker(dependency_results), as checkDepend calls it
apply_policy(checker, dependency_results) ==
    /\ last' = [NoCall EXCEPT !.op = "PassRequirement",
                              !.xpassing = checker,
                              !.dependency_results = dependency_results,
                              !.value = call_checker(checker, dependency_results)]
    /\ UNCHANGED <<ignore_unknown, automark, session, heap, dependencyManager>>

NextPolicy ==
    \E checker \in Range(methods), dependency_results \in SampleCollections :
        apply_policy(checker, dependency_results)

SpecPolicy == InitPolicy /\ [][NextPolicy]_vars

----------------------------------------------------------------------------
(* The dependency checks as functions of the registry and their arguments: *)
(* the registry is what the report hook leaves after the phases of the two *)
(* tests reported so far, and one check is asked for and then made.        *)

rep_of(when, outcome) == [when |-> when, outcome |-> outcome]

\* The reports of a test so far: none; setup and call passed (the test is
\* running); all three passed; a failed call; a failed teardown; a skipped
\* setup.
SampleHistories ==
    { <<>>,
      <<rep_of("setup", "passed"), rep_of("call", "passed")>>,
      <<rep_of("setup", "passed"), rep_of("call", "passed"),
        rep_of("teardown", "passed")>>,
      <<rep_of("setup", "passed"), rep_of("call", "failed"),
        rep_of("teardown", "passed")>>,
      <<rep_of("setup", "passed"), rep_of("call", "passed"),
        rep_of("teardown", "failed")>>,
      <<rep_of("setup", "skipped"), rep_of("teardown", "passed")>> }

RECURSIVE report_all(_, _, _, _)
\* The world after the report hook ran for history[i], history[i+1], ...
report_all(w, item, history, i) ==
    IF i > Len(history) THEN w
    ELSE report_all(runtest_makereport(w, item, history[i]), item, history, i + 1)

ReportItem(cls, name) == Item("m1", cls, name, Marker(name_kwargs(cls, name)))

\* The class of the test of module m1 with the given name.
cls_of(name) == IF name = NameA THEN ClsK ELSE None

\* A call that is asked for and not made yet.  xpassing "" stands for a
\* marker without xpassing, or a call of depends without the argument.
Pending(op, name, dependencies, xpassing) ==
    [NoCall EXCEPT !.op = op, !.item = name, !.dependencies = dependencies,
                   !.xpassing = xpassing, !.outcome = "pending"]

PendingCalls ==
    {Pending(op, t[2], d, x) :
        op \in {"pytest_runtest_setup", "depends"}, t \in Tests,
        d \in DepLists, x \in Selectors \cup {""}}
    \cup {Pending("checkDepend", t[2], d, x) :
            t \in Tests, d \in DepLists, x \in Range(methods)}

InitCheck ==
    /\ automark = FALSE
    /\ ignore_unknown \in BOOLEAN
    /\ \E hA \in SampleHistories, hB \in SampleHistories :
          LET w0 == [dm |-> <<>>, heap |-> <<>>]
              w1 == report_all(w0, ReportItem(ClsK, NameA), hA, 1)
              w2 == report_all(w1, ReportItem(None, NameAp), hB, 1)
          IN  /\ dependencyManager = w2.dm
              /\ heap = w2.heap
    /\ last \in PendingCalls
    /\ session = NoSession

\* manager = DependencyManager.getManager(item);
\* manager.checkDepend(dependencies, item, checker)
manager_checkDepend(item, dependencies, checker) ==
    /\ LET w == getManager(World, item)
           r == checkDepend(w.dm[scope_node(item)], dependencies, item, checker)
       IN  /\ dependencyManager' = [w.dm EXCEPT ![scope_node(item)] =
                                       after_checkDepend(@, dependencies)]
           /\ last' = [NoCall EXCEPT
                          !.op = "checkDepend",
                          !.item = item.name,
                          !.module = item.module,
                          !.dependencies = dependencies,
                          !.xpassing = checker,
                          !.outcome = r.outcome,
                          !.msg = r.msg]
    /\ UNCHANGED <<ignore_unknown, automark, session, heap>>

\* The marker of the pending setup: name, depends and maybe xpassing.
pending_marker ==
    Marker(name_kwargs(cls_of(last.item), last.item)
           @@ ("depends" :> last.dependencies)
           @@ (IF last.xpassing = "" THEN <<>> ELSE ("xpassing" :> last.xpassing)))

MakeSetup ==
    /\ last.outcome = "pending" /\ last.op = "pytest_runtest_setup"
    /\ pytest_runtest_setup(Item("m1", cls_of(last.item), last.item, pending_marker))

MakeDepends ==
    /\ last.outcome = "pending" /\ last.op = "depends"
    /\ depends([node |-> ReportItem(cls_of(last.item), last.item)],
               last.dependencies,
               IF last.xpassing = "" THEN PassRequirement_all ELSE last.xpassing)

MakeCheckDepend ==
    /\ last.outcome = "pending" /\ last.op = "checkDepend"
    /\ manager_checkDepend(ReportItem(cls_of(last.item), last.item),
                           last.dependencies, last.xpassing)

NextCheck == MakeSetup \/ MakeDepends \/ MakeCheckDepend

SpecCheck == InitCheck /\ [][NextCheck]_vars

----------------------------------------------------------------------------
(* Vocabulary of the properties. *)

\* The manager of module m1 as a dependency check finds it.
Mgr ==
    IF "m1" \in DOMAIN dependencyManager
    THEN dependencyManager["m1"] ELSE DependencyManager

Known(id) == id \in DOMAIN Mgr.results_by_name

AllKnown(deps) == \A i \in 1..Len(deps) : Known(deps[i])

UnknownOf(deps) == SelectSeq(deps, LAMBDA id : ~Known(id))

\* The result-sets of the known identifiers of a list, in list order.
KnownSets(deps) ==
    LET known == SelectSeq(deps, LAMBDA id : Known(id))
    IN  [i \in 1..Len(known) |-> Mgr.results_by_name[known[i]]]

\* All three phase slots of object o hold passed.
SlotsPassed(o) == \A w \in PhaseSet : heap[o].results[w] = "passed"

PolicyName(selector) ==
    CASE selector \in {"all", PassRequirement_all}   -> "all"
      [] selector \in {"any", PassRequirement_any}   -> "any"
      [] selector \in {"each", PassRequirement_each} -> "each"
      [] OTHER -> "none"

\* What the three policies require of a collection of result-sets.
PolicyHolds(policy, sets) ==
    CASE policy = "all"  -> \A i \in 1..Len(sets) : \A o \in sets[i] : SlotsPassed(o)
      [] policy = "any"  -> \E i \in 1..Len(sets) : \E o \in sets[i] : SlotsPassed(o)
      [] policy = "each" -> \A i \in 1..Len(sets) : \E o \in sets[i] : SlotsPassed(o)
      [] OTHER -> FALSE

CheckOps == {"pytest_runtest_setup", "depends", "checkDepend"}

Done == last.outcome \in {"proceed", "skip", "fail", "error"}

----------------------------------------------------------------------------
(* C1 *)

\* What lets a dependency check with this list and selector proceed.
MayProceed(deps, xpassing) ==
    /\ xpassing \in ValidSelectors
    /\ ignore_unknown \/ AllKnown(deps)
    /\ PolicyHolds(PolicyName(xpassing), KnownSets(deps))

\* C1, as amended: a test that declares a non-empty dependency list gets
\* past pytest_runtest_setup exactly when its policy resolves, every listed
\* identifier has an entry in the registry or ignore-unknown is on, and the
\* result-sets of the listed identifiers that have an entry satisfy the
\* policy; in every other case the hook ends in a skip, a failure or the
\* policy error, and the test does not run.
C1_ProceedsOnlyIfSatisfied ==
    (last.op = "pytest_runtest_setup" /\ Done /\ Len(last.dependencies) > 0) =>
        (last.outcome = "proceed") = MayProceed(last.dependencies, last.xpassing)

\* C1, as stated: under every setting of ignore-unknown the test proceeds
\* only if every listed identifier has an entry and the policy is satisfied.
C1_AsStated ==
    (last.op = "pytest_runtest_setup" /\ Done /\ Len(last.dependencies) > 0) =>
        (last.outcome = "proceed" =>
            /\ AllKnown(last.dependencies)
            /\ PolicyHolds(PolicyName(last.xpassing), KnownSets(last.dependencies)))

\* The hook let a test proceed whose list names a known, successful
\* identifier and one without entry, with ignore-unknown on.
C1_Witness ==
    /\ last.op = "pytest_runtest_setup"
    /\ last.outcome = "proceed"
    /\ ignore_unknown
    /\ last.dependencies = <<ClsK, QualifiedKa>>
    /\ Known(ClsK) /\ ~Known(QualifiedKa)

----------------------------------------------------------------------------
(* C2 *)

----------------------------------------------------------------------------
(* C3 *)

NoneKnown(deps) == \A i \in 1..Len(deps) : ~Known(deps[i])

\* C3: with ignore-unknown on, checkDepend never fails the test; it lets
\* the test proceed exactly when the policy holds over the result-sets of
\* the identifiers that have an entry and skips it otherwise, so that with
\* no listed identifier known all and each proceed and any skips.
C3_IgnoreUnknown ==
    (last.op = "checkDepend" /\ Done /\ ignore_unknown) =>
        /\ last.outcome \in {"proceed", "skip"}
        /\ (last.outcome = "proceed")
               = PolicyHolds(PolicyName(last.xpassing), KnownSets(last.dependencies))
        /\ NoneKnown(last.dependencies) =>
               (last.outcome = "skip") = (last.xpassing = PassRequirement_any)

\* With ignore-unknown on, checkDepend under policy any of a non-empty list
\* none of whose identifiers has an entry ended in a skip, in a registry
\* that holds a successful test.
C3_Witness ==
    /\ last.op = "checkDepend"
    /\ ignore_unknown
    /\ last.outcome = "skip"
    /\ last.xpassing = PassRequirement_any
    /\ last.dependencies = <<QualifiedKa>>
    /\ Known(ClsK) /\ \E o \in Mgr.results_by_name[ClsK] : SlotsPassed(o)

----------------------------------------------------------------------------
(* C4 *)

\* C4: when every identifier of the list has an entry, checkDepend skips
\* the test exactly when the policy is false over the identifiers'
\* result-sets and lets it proceed exactly when it is true, never fails it,
\* and the skip names the requesting test and the list as passed in.
C4_KnownSkipOrProceed ==
    (last.op = "checkDepend" /\ Done /\ AllKnown(last.dependencies)) =>
        LET deps == last.dependencies
            sets == [i \in 1..Len(deps) |-> Mgr.results_by_name[deps[i]]]
        IN  IF PolicyHolds(PolicyName(last.xpassing), sets)
            THEN last.outcome = "proceed" /\ last.msg = NoMsg
            ELSE last.outcome = "skip" /\ last.msg = SkipMsg(last.item, deps)

\* checkDepend of the list (K, a) under policy all ended in a skip naming
\* both, while the test of class K had succeeded and the other test named a
\* had not.
C4_Witness ==
    /\ last.op = "checkDepend"
    /\ last.outcome = "skip"
    /\ last.dependencies = <<ClsK, NameA>>
    /\ last.xpassing = PassRequirement_all
    /\ last.msg = SkipMsg(last.item, <<ClsK, NameA>>)
    /\ Cardinality(Mgr.results_by_name[NameA]) = 2
    /\ \A o \in Mgr.results_by_name[ClsK] : SlotsPassed(o)

----------------------------------------------------------------------------
(* C5 *)

\* C5: for every status the registry holds, isSuccess and the boolean
\* coercion are true exactly when the setup, call and teardown slots all
\* hold passed; a status with a slot unset, failed or skipped is not
\* successful.
C5_SuccessIffAllPassed ==
    \A o \in 1..Len(heap) :
        /\ isSuccess(heap[o]) = SlotsPassed(o)
        /\ bool(o) = SlotsPassed(o)
        /\ (\E w \in PhaseSet :
                heap[o].results[w] \in {"None", "failed", "skipped"})
               => ~isSuccess(heap[o])

\* The registry holds a successful status and one whose setup and call
\* passed and whose teardown is not reported yet.
C5_Witness ==
    /\ \E o \in 1..Len(heap) : isSuccess(heap[o])
    /\ \E o \in 1..Len(heap) :
           /\ heap[o].results["setup"] = "passed"
           /\ heap[o].results["call"] = "passed"
           /\ heap[o].results["teardown"] = "None"
           /\ ~bool(o)

----------------------------------------------------------------------------
(* C6 *)

\* Collections of at most MaxDeps result-sets over the objects.
Collections == SeqsUpTo(SUBSET PolicyObjects, MaxDeps)

\* C6: for every collection of result-sets, empty ones included, all is
\* true iff every status of every result-set is successful, any iff some
\* result-set has a successful member, each iff every result-set has one;
\* for G1 = {pass, pass} and G2 = {pass, fail}, all is false and each and
\* any are true.
C6_PolicyQuantifiers ==
    /\ \A sets \in Collections :
           /\ all(sets) = (\A i \in 1..Len(sets) : \A o \in sets[i] : SlotsPassed(o))
           /\ any(sets) = (\E i \in 1..Len(sets) : \E o \in sets[i] : SlotsPassed(o))
           /\ each(sets) = (\A i \in 1..Len(sets) : \E o \in sets[i] : SlotsPassed(o))
    /\ (SlotsPassed(1) /\ SlotsPassed(2) /\ ~SlotsPassed(3)) =>
           LET G == << {1, 2}, {1, 3} >>
           IN  ~all(G) /\ each(G) /\ any(G)
    /\ last.op = "PassRequirement" =>
           last.value = PolicyHolds(PolicyName(last.xpassing),
                                    last.dependency_results)

\* Policy each was applied to G1 = {pass, pass}, G2 = {pass, fail} and
\* answered true.
C6_Witness ==
    /\ last.op = "PassRequirement"
    /\ last.xpassing = PassRequirement_each
    /\ last.dependency_results = << {1, 2}, {1, 3} >>
    /\ SlotsPassed(1) /\ SlotsPassed(2) /\ ~SlotsPassed(3)
    /\ last.value

----------------------------------------------------------------------------
(* C7 *)

\* The identifiers C7 names for the two tests: explicit name, class name,
\* function name, parametrization suffix and canonical qualified name.
NamedIds(canonical) ==
    IF canonical = QualifiedKa
    THEN {ClsK, NameA, QualifiedKa}
    ELSE {<<"x">>, NameA, <<"p">>, NameAp}

\* C7, as stated: after addResult for a test, its status is in the
\* result-set of its explicit name, its class name, its function name, its
\* parametrization suffix and its canonical qualified name, so a dependency
\* on the qualified name is known and resolves to the test's status.
C7_AsStated ==
    \A canonical \in {QualifiedKa, NameAp} :
        canonical \in DOMAIN Mgr.results =>
            \A id \in NamedIds(canonical) :
                /\ Known(id)
                /\ Mgr.results[canonical] \in Mgr.results_by_name[id]

----------------------------------------------------------------------------
(* C8 *)

\* The statuses recorded for the tests whose function name is a.
VariantsOfA == {Mgr.results[n] : n \in {QualifiedKa, NameAp} \cap DOMAIN Mgr.results}

\* C8: the result-set of the bare function name a holds the status of
\* every recorded test named a, in class K or parametrized, and a check of
\* the list (a) under policy all proceeds only if every one of them
\* succeeded.
C8_BareNameReachesEveryVariant ==
    /\ VariantsOfA # {} =>
           Known(NameA) /\ VariantsOfA \subseteq Mgr.results_by_name[NameA]
    /\ (last.op \in CheckOps /\ last.outcome = "proceed"
            /\ last.dependencies = <<NameA>>
            /\ PolicyName(last.xpassing) = "all") =>
           \A o \in VariantsOfA : SlotsPassed(o)

\* The hook skipped a test that depends on a under the default policy
\* while K::a had succeeded and a[p] was recorded and had not.
C8_Witness ==
    /\ last.op = "pytest_runtest_setup"
    /\ last.outcome = "skip"
    /\ last.dependencies = <<NameA>>
    /\ last.xpassing = PassRequirement_all
    /\ Cardinality(VariantsOfA) = 2
    /\ QualifiedKa \in DOMAIN Mgr.results
    /\ SlotsPassed(Mgr.results[QualifiedKa])

----------------------------------------------------------------------------
(* C9 *)

\* The test that declares what the last call was given.
DeclaringItem ==
    Item("m1", cls_of(last.item), last.item,
         Marker(name_kwargs(cls_of(last.item), last.item)
                @@ ("depends" :> last.dependencies)
                @@ ("xpassing" :> last.xpassing)))

\* C9, as stated: a call of depends ends as pytest_runtest_setup ends for a
\* test that declares the same list and the same policy, the empty list
\* included.
C9_SameDecision ==
    (last.op = "depends" /\ Done) =>
        last.outcome = runtest_setup(DeclaringItem).outcome

----------------------------------------------------------------------------
(* C10 *)

\* C10, as amended: a test that declares a non-empty dependency list and a
\* policy selector that is neither one of the names all, any, each nor one
\* of the three callables gets the policy error at its setup, whatever the
\* registry holds and whatever identifiers the list names.
C10_BadPolicyIsSetupError ==
    (last.op = "pytest_runtest_setup" /\ Done
        /\ last.xpassing \notin ValidSelectors
        /\ Len(last.dependencies) > 0) =>
        /\ last.outcome = "error"
        /\ last.msg = ValueErrorMsg(last.xpassing)

\* C10, as stated: every test with such a selector gets the error, whatever
\* its dependency list.
C10_AsStated ==
    (last.op = "pytest_runtest_setup" /\ Done
        /\ last.xpassing \notin ValidSelectors) =>
        last.outcome = "error"

\* The setup of a test with an unresolvable policy ended in the policy
\* error although its list names an identifier without entry and
\* ignore-unknown is off.
C10_Witness ==
    /\ last.op = "pytest_runtest_setup"
    /\ last.outcome = "error"
    /\ last.xpassing = "bogus"
    /\ ~ignore_unknown
    /\ last.dependencies = <<QualifiedKa, ClsK>>
    /\ Known(ClsK) /\ ~Known(QualifiedKa)

----------------------------------------------------------------------------
(* C11 *)

\* C11: a dependency check, made through checkDepend itself or through a
\* hook or depends(), leaves the registry as it found it whether it proceeds,
\* skips or fails: the canonical-name map, the known identifiers, every
\* result-set and every phase slot are the same after the call as before.
C11_CheckLeavesRegistry ==
    [][last'.op \in CheckOps => (Mgr' = Mgr /\ heap' = heap)]_vars

\* A failed checkDepend on a list with a never-registered identifier, made
\* on a registry that holds results.
C11_Witness ==
    /\ last.op = "checkDepend"
    /\ last.outcome = "fail"
    /\ \E i \in 1..Len(last.dependencies) : ~Known(last.dependencies[i])
    /\ DOMAIN Mgr.results # {}
    /\ \E o \in 1..Len(heap) : isSuccess(heap[o])

----------------------------------------------------------------------------
(* C12: two modules, each with a class K with a test a and a test a[p]. *)

Modules == {"m1", "m2"}

ScopeReporters == {Item(m, ClsK, NameA, NoMarker) : m \in Modules}

ScopeRequesters == {Item(m, None, NameAp, NoMarker) : m \in Modules}

ScopeItems == ScopeReporters \cup ScopeRequesters

ScopeLists == {<<NameA>>, <<ClsK, QualifiedKa>>}

\* manager = DependencyManager.getManager(item); manager.addResult(item,
\* None, rep), with the module of the item kept in last
scoped_addResult(item, rep) ==
    /\ LET w1 == getManager(World, item)
           w2 == addResult(w1, scope_node(item), item, None, rep)
       IN  /\ dependencyManager' = w2.dm
           /\ heap' = w2.heap
    /\ last' = [NoCall EXCEPT !.op = "addResult", !.item = item.name,
                              !.module = item.module]
    /\ UNCHANGED <<ignore_unknown, automark, session>>

ScopeAddResult ==
    \E item \in ScopeReporters, rep \in Reports :
        /\ host_may_report(item, rep)
        /\ scoped_addResult(item, rep)

ScopeCheckDepend ==
    \E item \in ScopeRequesters, d \in ScopeLists, x \in Range(methods) :
        manager_checkDepend(item, d, x)

NextScope == ScopeAddResult \/ ScopeCheckDepend

SpecScope == Init /\ [][NextScope]_vars

\* The registry getManager returns for an item.
RegistryOf(item) == getManager(World, item).dm[scope_node(item)]

\* How a check made through the registry of an item ends.
CheckVia(item, d, x) == checkDepend(RegistryOf(item), d, item, x)

\* C12: getManager returns for an item the registry already attached to the
\* node of its module, so every call for one module gets the same registry
\* with all that was recorded in it; items of different modules get
\* registries at different nodes; and an addResult made through the registry
\* of one module changes neither the registry of another module nor the
\* result of any checkDepend made through it.
C12_OneRegistryPerAnchor ==
    /\ [](\A i \in ScopeItems :
              scope_node(i) \in DOMAIN dependencyManager
                  => RegistryOf(i) = dependencyManager[scope_node(i)])
    /\ [](\A i, j \in ScopeItems :
              (i.module = j.module) <=> (scope_node(i) = scope_node(j)))
    /\ [][last'.op = "addResult" =>
              \A j \in ScopeItems :
                  j.module # last'.module =>
                      /\ RegistryOf(j)' = RegistryOf(j)
                      /\ \A d \in ScopeLists, x \in Range(methods) :
                             CheckVia(j, d, x)' = CheckVia(j, d, x)]_vars

\* The test a of m1 is recorded as passed in the registry of m1, which
\* knows the name a; a check made in m2 on the name a has just failed
\* because the registry of m2, which exists, does not know it.
C12_Witness ==
    /\ last.op = "checkDepend" /\ last.module = "m2"
    /\ last.dependencies = <<NameA>> /\ last.outcome = "fail"
    /\ Modules \subseteq DOMAIN dependencyManager
    /\ NameA \in DOMAIN dependencyManager["m1"].results_by_name
    /\ \E o \in dependencyManager["m1"].results_by_name[NameA] :
           isSuccess(heap[o])
    /\ NameA \notin DOMAIN dependencyManager["m2"].results_by_name

----------------------------------------------------------------------------
(* C13: a suite with an unmarked test, a marked and named one, and a       *)
(* marked one without name, run with automark_dependency set or not.       *)

NameB == <<"b">>

MarkItems ==
    { Item("m1", ClsK, NameA, NoMarker),
      Item("m1", None, NameAp, Marker("name" :> <<"x">>)),
      Item("m1", None, NameB, Marker(<<>>)) }

MarkConfigs == [automark_dependency : {"", "yes"},
                ignore_unknown_dependency : {FALSE}]

\* pytest_runtest_makereport(item, call), with the report kept in last
observed_makereport(item, rep) ==
    /\ LET w == runtest_makereport(World, item, rep)
       IN  /\ dependencyManager' = w.dm
           /\ heap' = w.heap
    /\ last' = [NoCall EXCEPT !.op = "pytest_runtest_makereport",
                              !.item = item.name, !.rep = rep]
    /\ UNCHANGED <<ignore_unknown, automark, session>>

MarkConfigure == \E config \in MarkConfigs : pytest_configure(config)

\* The host reports the phases of a test in order; what it reported for a
\* test the plugin does not record cannot be read off the registry, so for
\* such a test every report is let through.
MarkReport ==
    \E item \in MarkItems, rep \in Reports :
        /\ host_may_report(item, rep) \/ (item.marker.is_none /\ ~automark)
        /\ observed_makereport(item, rep)

NextMark == MarkConfigure \/ MarkReport

SpecMark == Init /\ [][NextMark]_vars

MarkItemOf(name) == CHOOSE item \in MarkItems : item.name = name

\* The name the hook passes on for an item: the marker's name if it has one.
ExplicitName(item) ==
    IF ~item.marker.is_none /\ "name" \in DOMAIN item.marker.kwargs
    THEN item.marker.kwargs["name"] ELSE None

\* The identifiers addResult derives from the node name of an item.
DerivedIds(item) ==
    LET parts == split_node_name(node_name_of(item))
    IN  {parts.class_name, parts.func_name, parts.params_name} \ {None}

\* C13: the report hook forwards a report to addResult exactly when the test
\* carries the dependency marker or automark is on: then the status of the
\* test holds the reported outcome in the reported phase, and the new
\* identifiers are the marker's explicit name, when it has one, and the
\* ones derived from the node name, and no other; for an unmarked test with
\* automark off the registry is left as it was, so the identifiers of such
\* a test stay unknown.
C13_ForwardsIffMarkedOrAutomark ==
    /\ [][last'.op = "pytest_runtest_makereport" =>
            LET item == MarkItemOf(last'.item)
                n    == node_name_of(item)
                ids  == DerivedIds(item) \cup ({ExplicitName(item)} \ {None})
            IN  IF ~item.marker.is_none \/ automark
                THEN /\ n \in DOMAIN Mgr'.results
                     /\ heap'[Mgr'.results[n]].results[last'.rep.when]
                            = last'.rep.outcome
                     /\ DOMAIN Mgr'.results_by_name
                            = DOMAIN Mgr.results_by_name \cup ids
                     /\ \A id \in ids :
                            Mgr'.results[n] \in Mgr'.results_by_name[id]
                ELSE /\ dependencyManager' = dependencyManager
                     /\ heap' = heap]_vars
    /\ [](~automark => ~Known(ClsK))

\* With automark off a passed report of the unmarked test K::a has just
\* been seen; the marked test a[p] is recorded under its name x, and the
\* class name K, an identifier of the unmarked test only, is unknown.
C13_Witness ==
    /\ ~automark
    /\ last.op = "pytest_runtest_makereport" /\ last.item = NameA
    /\ last.rep = [when |-> "call", outcome |-> "passed"]
    /\ Known(<<"x">>) /\ Known(NameB)
    /\ ~Known(ClsK)

----------------------------------------------------------------------------
(* C14 *)

\* C14 as stated: for every collection of result-sets, all implies each and
\* each implies any.
C14_AsStated ==
    \A sets \in Collections :
        /\ all(sets) => each(sets)
        /\ each(sets) => any(sets)

\* C14: for every collection of result-sets, whenever all is true and no
\* result-set of the collection is empty each is true, and whenever each is
\* true and the collection is not empty any is true; over the empty
\* collection each is true and any is false.
C14_EachBetweenAllAndAny ==
    /\ \A sets \in Collections :
           /\ (all(sets) /\ \A i \in 1..Len(sets) : sets[i] # {}) => each(sets)
           /\ (each(sets) /\ sets # <<>>) => any(sets)
    /\ each(<<>>) /\ ~any(<<>>)

\* Policy each was applied to one result-set with a successful and an
\* unsuccessful status and answered true, where all is false and any true.
C14_Witness ==
    /\ last.op = "PassRequirement"
    /\ last.xpassing = PassRequirement_each
    /\ last.dependency_results = << {1, 2, 3} >>
    /\ SlotsPassed(1) /\ ~SlotsPassed(3)
    /\ last.value
    /\ ~all(last.dependency_results) /\ any(last.dependency_results)

----------------------------------------------------------------------------
(* C15 *)

\* The phase slots in which two statuses differ.
SlotsChanged(before, after) ==
    {w \in PhaseSet : before.results[w] # after.results[w]}

\* C15: after any sequence of addResult calls there is exactly one status
\* object per canonical node name and no other; the identifiers derived from
\* a node name all lead to the object of that name, and every result-set
\* holds objects of the canonical-name map only; an addResult call keeps the
\* object of every recorded name and changes at most one slot of one object,
\* so the three phases of a test end up in one record.
C15_OneStatusPerName ==
    /\ [](/\ Len(heap) = Cardinality(DOMAIN Mgr.results)
          /\ \A n1, n2 \in DOMAIN Mgr.results :
                 n1 # n2 => Mgr.results[n1] # Mgr.results[n2]
          /\ \A n \in DOMAIN Mgr.results :
                 LET parts == split_node_name(n)
                 IN  \A id \in {parts.class_name, parts.func_name,
                                parts.params_name} \ {None} :
                         /\ id \in DOMAIN Mgr.results_by_name
                         /\ Mgr.results[n] \in Mgr.results_by_name[id]
          /\ \A id \in DOMAIN Mgr.results_by_name :
                 Mgr.results_by_name[id] \subseteq Range(Mgr.results))
    /\ [][last'.op = "addResult" =>
              /\ \A n \in DOMAIN Mgr.results :
                     /\ n \in DOMAIN Mgr'.results
                     /\ Mgr'.results[n] = Mgr.results[n]
              /\ Cardinality({o \in 1..Len(heap) : heap'[o] # heap[o]}) <= 1
              /\ \A o \in 1..Len(heap) :
                     Cardinality(SlotsChanged(heap[o], heap'[o])) <= 1]_vars

\* Both tests are recorded; the status of a[p] holds an outcome in all three
\* phases and is the one object behind the identifiers a, p and x.
C15_Witness ==
    /\ last.op = "addResult"
    /\ Len(heap) = 2
    /\ NameAp \in DOMAIN Mgr.results
    /\ LET o == Mgr.results[NameAp]
       IN  /\ \A w \in PhaseSet : heap[o].results[w] # "None"
           /\ \A id \in {NameA, <<"p">>, <<"x">>} :
                  /\ Known(id)
                  /\ o \in Mgr.results_by_name[id]

----------------------------------------------------------------------------
(* C16 *)

\* The status objects the identifier index leads to.
Indexed == UNION {Mgr.results_by_name[id] : id \in DOMAIN Mgr.results_by_name}

\* C16: in every registry state, every status in a result-set of the
\* identifier index is a value of the canonical-name map, and every value
\* of the canonical-name map is in at least one result-set.
C16_IndexMirrorsMap ==
    /\ \A o \in Indexed : \E n \in DOMAIN Mgr.results : Mgr.results[n] = o
    /\ \A n \in DOMAIN Mgr.results :
           \E id \in DOMAIN Mgr.results_by_name :
               Mgr.results[n] \in Mgr.results_by_name[id]

\* Both tests are recorded, none under an explicit name; the result-set of
\* the function name a holds the two statuses of the map.
C16_Witness ==
    /\ last.op = "addResult"
    /\ DOMAIN Mgr.results = {QualifiedKa, NameAp}
    /\ ~Known(<<"x">>)
    /\ Mgr.results_by_name[NameA] = Range(Mgr.results)
    /\ Cardinality(Indexed) = 2

----------------------------------------------------------------------------
(* C17 *)

\* Manager after holds all that manager before holds: the same object under
\* every canonical name, every known identifier, every member of every
\* result-set.
Extends(before, after) ==
    /\ DOMAIN before.results \subseteq DOMAIN after.results
    /\ \A n \in DOMAIN before.results : after.results[n] = before.results[n]
    /\ DOMAIN before.results_by_name \subseteq DOMAIN after.results_by_name
    /\ \A id \in DOMAIN before.results_by_name :
           before.results_by_name[id] \subseteq after.results_by_name[id]

\* C17: at every step of a run of reports and dependency checks, a node
\* that has a registry keeps it, and the canonical-name map, the set of
\* known identifiers and every result-set of the registry only grow; no
\* status object goes away.
C17_RegistryOnlyGrows ==
    [][/\ \A node \in DOMAIN dependencyManager :
              /\ node \in DOMAIN dependencyManager'
              /\ Extends(dependencyManager[node], dependencyManager'[node])
       /\ Len(heap') >= Len(heap)]_vars

\* Both tests are recorded, a[p] under its name x, and a dependency check
\* has just skipped the test that made it.
C17_Witness ==
    /\ last.op = "pytest_runtest_setup"
    /\ last.outcome = "skip"
    /\ DOMAIN Mgr.results = {QualifiedKa, NameAp}
    /\ Known(<<"x">>) /\ Known(ClsK)

----------------------------------------------------------------------------
(* C18: addResult calls whose arguments are kept, so that a call can be    *)
(* compared with the one before it.                                        *)

RepeatReports == [when : PhaseSet, outcome : {"passed", "failed"}]

\* manager = DependencyManager.getManager(item);
\* manager.addResult(item, dependency_name, rep), with the arguments kept in
\* last, and in last.value whether the status of the item was successful
\* when the call was made
recorded_addResult(item, dependency_name, rep) ==
    /\ LET w1 == getManager(World, item)
           w2 == addResult(w1, scope_node(item), item, dependency_name, rep)
       IN  /\ dependencyManager' = w2.dm
           /\ heap' = w2.heap
    /\ last' = [NoCall EXCEPT !.op = "addResult", !.item = item.name,
                              !.name = dependency_name, !.rep = rep,
                              !.value = isSuccess(recorded_status(item))]
    /\ UNCHANGED <<ignore_unknown, automark, session>>

RepeatAddResult ==
    \E item \in ApiItems, dependency_name \in {None, <<"x">>},
       rep \in RepeatReports :
        recorded_addResult(item, dependency_name, rep)

NextRepeat == RepeatAddResult

SpecRepeat == Init /\ [][NextRepeat]_vars

\* The current object of the item of the last call.
LastObject == Mgr.results[node_name_of(Item("m1", cls_of(last.item), last.item,
                                            NoMarker))]

\* C18: an addResult call with the item, explicit name, phase and outcome of
\* the call before it leaves the canonical-name map, the identifier index
\* and every phase slot as that call left them; after every addResult call
\* the slot of the reported phase holds the reported outcome, whatever it
\* held before, and the other slots of the status are as they were, so that
\* a report that is not passed makes a successful status unsuccessful.
C18_RepeatAndOverwrite ==
    /\ [][last'.op = "addResult" =>
            /\ (/\ last.op = "addResult"
                /\ last'.item = last.item /\ last'.name = last.name
                /\ last'.rep = last.rep)
                   => (dependencyManager' = dependencyManager /\ heap' = heap)
            /\ heap'[LastObject'].results[last'.rep.when] = last'.rep.outcome
            /\ LastObject' <= Len(heap) =>
                   SlotsChanged(heap[LastObject'], heap'[LastObject'])
                       \subseteq {last'.rep.when}]_vars
    /\ []((last.op = "addResult" /\ last.rep.outcome # "passed")
              => ~isSuccess(heap[LastObject]))

\* The status of a[p] was successful when the last report, a failed call,
\* came in for it; it is not successful now.
C18_Witness ==
    /\ last.op = "addResult" /\ last.item = NameAp
    /\ last.value
    /\ last.rep = [when |-> "call", outcome |-> "failed"]
    /\ heap[LastObject].results =
           [w \in PhaseSet |-> IF w = "call" THEN "failed" ELSE "passed"]
    /\ ~isSuccess(heap[LastObject])

----------------------------------------------------------------------------
(* C19: a sequential test session.  The host takes the tests of the suite  *)
(* one after the other, in an order of its choice; for each it calls the   *)
(* setup hook, reports the setup phase (skipped or failed when the hook    *)
(* raised), runs and reports the call phase after a passed setup only,     *)
(* and reports the teardown phase.                                         *)

\* What the marker of a[p] (named x) and the marker of b declare.
DeclarationsB ==
    { ("depends" :> <<ClsK>>),
      ("depends" :> <<QualifiedKa>>),
      ("depends" :> <<ClsK>>) @@ ("xpassing" :> "bogus") }

DeclarationsC ==
    { ("depends" :> << <<"x">> >>),
      ("depends" :> <<ClsK, <<"x">> >>),
      ("depends" :> << <<"p">> >>) @@ ("xpassing" :> PassRequirement_all),
      ("depends" :> <<ClsK, <<"x">> >>) @@ ("xpassing" :> "any") }

\* The suites: K::a declares nothing, a[p] is named x.
Suites ==
    { (NameA :> <<>>) @@ (NameAp :> (("name" :> <<"x">>) @@ b)) @@ (NameB :> c) :
        b \in DeclarationsB, c \in DeclarationsC }

RunTests == {NameA, NameAp, NameB}

RunItem(t) == Item("m1", cls_of(t), t, Marker(session.suite[t]))

InitRun ==
    /\ ignore_unknown \in BOOLEAN
    /\ automark = FALSE
    /\ heap = <<>>
    /\ dependencyManager = <<>>
    /\ last = NoCall
    /\ session \in {[NoSession EXCEPT !.suite = suite] : suite \in Suites}

\* The host starts the next test: pytest_runtest_setup(item) is called, and
\* what it raises is kept for the setup report.
run_setup(t) ==
    /\ session.phase = "idle"
    /\ t \notin session.done
    /\ LET item == RunItem(t)
           r    == runtest_setup(item)
       IN  /\ dependencyManager' = r.w.dm
           /\ heap' = r.w.heap
           /\ last' = [NoCall EXCEPT
                          !.op = "pytest_runtest_setup",
                          !.item = t,
                          !.dependencies =
                              kwargs_get(item.marker.kwargs, "depends", <<>>),
                          !.xpassing =
                              kwargs_get(item.marker.kwargs, "xpassing", ""),
                          !.outcome = r.outcome,
                          !.msg = r.msg]
           /\ session' = [session EXCEPT
                             !.current = t,
                             !.phase = "setup",
                             !.veto = IF r.outcome = "proceed" THEN ""
                                      ELSE r.outcome,
                             !.vetoed = IF r.outcome = "proceed" THEN @
                                        ELSE @ \cup {t}]
    /\ UNCHANGED <<ignore_unknown, automark>>

\* The outcome the host reports for a phase: a setup whose hook raised
\* pytest.skip is skipped, one whose hook raised anything else is failed.
host_outcome(rep) ==
    IF rep.when = "setup" /\ session.veto # ""
    THEN rep.outcome = (IF session.veto = "skip" THEN "skipped" ELSE "failed")
    ELSE TRUE

\* The phase after the one reported.
host_next_phase(rep) ==
    CASE rep.when = "setup"    -> IF rep.outcome = "passed" THEN "call"
                                  ELSE "teardown"
      [] rep.when = "call"     -> "teardown"
      [] rep.when = "teardown" -> "idle"

\* The host reports a phase of the current test:
\* pytest_runtest_makereport(item, call) sees the report.
run_report(rep) ==
    /\ session.phase = rep.when
    /\ host_outcome(rep)
    /\ LET t == session.current
           w == runtest_makereport(World, RunItem(t), rep)
       IN  /\ dependencyManager' = w.dm
           /\ heap' = w.heap
           /\ last' = [NoCall EXCEPT !.op = "pytest_runtest_makereport",
                                     !.item = t, !.rep = rep]
           /\ session' = [session EXCEPT
                             !.phase = host_next_phase(rep),
                             !.veto = "",
                             !.current = IF rep.when = "teardown" THEN None
                                         ELSE t,
                             !.done = IF rep.when = "teardown" THEN @ \cup {t}
                                      ELSE @,
                             !.ran = IF rep.when = "call" THEN @ \cup {t}
                                     ELSE @]
    /\ UNCHANGED <<ignore_unknown, automark>>

RunSetup == \E t \in RunTests : run_setup(t)

RunReport == \E rep \in Reports : run_report(rep)

NextRun == RunSetup \/ RunReport

SpecRun == InitRun /\ [][NextRun]_vars

\* The policy the marker of test t declares (all when it declares none).
DeclaredPolicy(t) ==
    PolicyName(kwargs_get(session.suite[t], "xpassing", PassRequirement_all))

\* Identifier id leads to the status of test t.
RefersTo(id, t) ==
    /\ Known(id)
    /\ node_name_of(RunItem(t)) \in DOMAIN Mgr.results
    /\ Mgr.results[node_name_of(RunItem(t))] \in Mgr.results_by_name[id]

\* C19: in a sequential session with ignore-unknown off, a marked test B
\* that its setup check skipped or failed is not run, has a setup outcome
\* that is not passed, a call phase that is never passed and a status that
\* is never successful; and every later test C with policy all whose list
\* has only known identifiers, one of them leading to B, is skipped by its
\* check, not failed, and is not run.
C19_SkipsPropagate ==
    ~ignore_unknown =>
        /\ \A B \in session.vetoed :
               /\ B \notin session.ran
               /\ LET st == recorded_status(RunItem(B))
                  IN  /\ st.results["setup"] # "passed"
                      /\ st.results["call"] # "passed"
                      /\ ~isSuccess(st)
        /\ (/\ last.op = "pytest_runtest_setup"
            /\ DeclaredPolicy(last.item) = "all"
            /\ AllKnown(last.dependencies)
            /\ \E B \in session.vetoed \ {last.item} :
                   \E i \in 1..Len(last.dependencies) :
                       RefersTo(last.dependencies[i], B))
               => (last.outcome = "skip" /\ last.item \in session.vetoed)

\* K::a passed; a[p], named x, was failed by its check on the unknown
\* identifier K::a; the check of b, which depends on K and x with policy
\* all, has just skipped b.
C19_Witness ==
    /\ ~ignore_unknown
    /\ last.op = "pytest_runtest_setup" /\ last.item = NameB
    /\ last.dependencies = <<ClsK, <<"x">> >>
    /\ DeclaredPolicy(NameB) = "all"
    /\ last.outcome = "skip"
    /\ session.vetoed = {NameAp, NameB}
    /\ session.ran = {NameA}
    /\ isSuccess(recorded_status(RunItem(NameA)))
    /\ recorded_status(RunItem(NameAp)).results["setup"] = "failed"

----------------------------------------------------------------------------
(* C20 *)

\* C20: in every registry state every result-set of the identifier index
\* has a member, also after dependency checks that looked up identifiers
\* never registered; so the result-sets a check hands to its policy are
\* never empty (the collection of them may be).
C20_NoEmptyResultSet ==
    /\ \A node \in DOMAIN dependencyManager :
           \A id \in DOMAIN dependencyManager[node].results_by_name :
               dependencyManager[node].results_by_name[id] # {}
    /\ (last.op \in CheckOps /\ Done) =>
           LET sets == KnownSets(last.dependencies)
           IN  \A i \in 1..Len(sets) : sets[i] # {}

\* A setup check has just failed on an identifier never registered, in a
\* registry where the name a leads to the statuses of both tests.
C20_Witness ==
    /\ last.op = "pytest_runtest_setup"
    /\ last.outcome = "fail"
    /\ \E i \in 1..Len(last.dependencies) : ~Known(last.dependencies[i])
    /\ Known(NameA)
    /\ Cardinality(Mgr.results_by_name[NameA]) = 2

====
